---- MODULE Spec2Model ----
(***************************************************************************)
(* Model of tools/sofa2hrir.py: conversion of a SOFA HRIR dataset to the   *)
(* .hrir text format (tetrahedral mode).                                   *)
(*                                                                         *)
(* Numbers.  The grid constants are irrational, so matrix entries are kept *)
(* exactly, as elements of Q(sqrt 2, sqrt 3):  <<a, b, c, d, q>> stands    *)
(* for (a + b*sqrt2 + c*sqrt3 + d*sqrt6) / q with q > 0 and the five       *)
(* integers coprime.  Impulse-response samples are rationals <<n, d>>.     *)
(* Double rounding is not modelled: a value is the real number the numpy   *)
(* expression denotes.                                                     *)
(***************************************************************************)
EXTENDS Integers, Sequences, FiniteSets, TLC

\* ------------------------------------------------------------------ bounds
MaxArgs    == 3     \* most command-line arguments after the program name
MaxSamples == 2     \* largest sample count of a dataset
MaxExtra   == 1     \* measurements beyond the 1277 the manual indices need
MaxPattern == 2     \* number of distinct sample-value patterns
MaxRuns    == 2     \* invocations of the program in a row
MaxPos     == 3     \* measured positions given to the nearest-match selector
Coords     == {0, 10}   \* azimuth / elevation values given to the selector

\* ------------------------------------------------------- exact arithmetic
Abs(n) == IF n < 0 THEN -n ELSE n

RECURSIVE GcdNat(_, _)
GcdNat(m, n) == IF n = 0 THEN m ELSE GcdNat(n, m % n)

Gcd(m, n) == GcdNat(Abs(m), Abs(n))

\* rationals <<n, d>> in lowest terms, d > 0
MkRat(n, d) ==
    LET g == Gcd(n, d)
        s == IF d < 0 THEN -1 ELSE 1
    IN  <<(s * n) \div g, (s * d) \div g>>

RatAdd(x, y) == MkRat(x[1] * y[2] + y[1] * x[2], x[2] * y[2])
RatScale(x, k) == MkRat(x[1] * k, x[2])
RatDivInt(x, k) == MkRat(x[1], x[2] * k)

\* elements of Q(sqrt2, sqrt3) in lowest terms
Norm(x) ==
    LET g == Gcd(Gcd(Gcd(x[1], x[2]), Gcd(x[3], x[4])), x[5])
        s == IF x[5] < 0 THEN -1 ELSE 1
    IN  <<(s * x[1]) \div g, (s * x[2]) \div g, (s * x[3]) \div g,
          (s * x[4]) \div g, (s * x[5]) \div g>>

Num(p, q) == Norm(<<p, 0, 0, 0, q>>)
Zero == Num(0, 1)
One  == Num(1, 1)

AddN(x, y) ==
    Norm(<<x[1] * y[5] + y[1] * x[5], x[2] * y[5] + y[2] * x[5],
           x[3] * y[5] + y[3] * x[5], x[4] * y[5] + y[4] * x[5],
           x[5] * y[5]>>)

NegN(x) == <<-x[1], -x[2], -x[3], -x[4], x[5]>>

MulN(x, y) ==
    Norm(<<x[1]*y[1] + 2*x[2]*y[2] + 3*x[3]*y[3] + 6*x[4]*y[4],
           x[1]*y[2] + x[2]*y[1] + 3*(x[3]*y[4] + x[4]*y[3]),
           x[1]*y[3] + x[3]*y[1] + 2*(x[2]*y[4] + x[4]*y[2]),
           x[1]*y[4] + x[4]*y[1] + x[2]*y[3] + x[3]*y[2],
           x[5]*y[5]>>)

\* the square-free radicands of the basis 1, sqrt2, sqrt3, sqrt6
Radicand == <<1, 2, 3, 6>>

\* k * sqrt(Radicand[m]) / q
Surd(k, m, q) == Norm([j \in 1..5 |-> IF j = m THEN k ELSE IF j = 5 THEN q ELSE 0])

\* np.sqrt of a non-negative rational p/q:  sqrt(p*q)/q, with sqrt(p*q)
\* written as s*sqrt(m), m square-free
SqrtN(x) ==
    LET n == x[1] * x[5]
        sm == CHOOSE sm \in (0..n) \X (1..4) : sm[1] * sm[1] * Radicand[sm[2]] = n
    IN  Surd(sm[1], sm[2], x[5])

\* sign of a number with at most one non-zero coefficient
SignN(x) ==
    LET s == x[1] + x[2] + x[3] + x[4]
    IN  IF s > 0 THEN 1 ELSE IF s < 0 THEN -1 ELSE 0

\* x / y for y = k*sqrt(m)/q, k # 0:  1/y = q*sqrt(m)/(k*m)
DivN(x, y) ==
    LET m == CHOOSE m \in 1..4 : y[m] # 0
    IN  MulN(x, Surd(y[5], m, y[m] * Radicand[m]))

\* ------------------------------------------------------------ the grid
Tetrahedron ==
    LET r == <<
          <<NegN(SqrtN(Num(2, 3))), SqrtN(Num(2, 9)), Num(-1, 3)>>,
          <<SqrtN(Num(2, 3)),       SqrtN(Num(2, 9)), Num(-1, 3)>>,
          <<Zero,             NegN(SqrtN(Num(8, 9))), Num(-1, 3)>>,
          <<Zero,                   Zero,             One>> >>
    IN  [i \in 0..3 |-> [j \in 0..2 |-> r[i + 1][j + 1]]]

\* calc_angles(cartesian): the two printed rows and the contents of the
\* argument array when the call returns.  arcsin and arctan2 are kept as
\* terms; only the test theta < 0 is evaluated:
\* -arctan2(x, y) < 0  iff  x > 0, or x = 0 and y < 0 (arctan2(0, y<0) = pi).
\* faulty variant: the sign flip of theta is applied to the argument's
\* first column in place
calc_angles_inplace(cartesian) ==
    [printed |-> << [kind |-> "phi", vals |-> <<>>], [kind |-> "theta", vals |-> <<>>] >>,
     cartesian |-> [i \in 0..3 |-> [j \in 0..2 |->
                      IF j = 0 THEN NegN(cartesian[i][0]) ELSE cartesian[i][j]]]]

calc_angles(cartesian) ==
    LET phi == [i \in 0..3 |-> [fn |-> "arcsin", args |-> <<cartesian[i][2]>>,
                                wrapped |-> FALSE]]
        neg(i) == \/ SignN(cartesian[i][0]) > 0
                  \/ SignN(cartesian[i][0]) = 0 /\ SignN(cartesian[i][1]) < 0
        theta == [i \in 0..3 |-> [fn |-> "-arctan2",
                                  args |-> <<cartesian[i][0], cartesian[i][1]>>,
                                  wrapped |-> neg(i)]]
    IN  [printed |-> << [kind |-> "phi",   vals |-> [i \in 1..4 |-> phi[i - 1]]],
                        [kind |-> "theta", vals |-> [i \in 1..4 |-> theta[i - 1]]] >>,
         cartesian |-> cartesian]

\* ----------------------------------------------------- files and datasets
ArgPaths == {"in.sofa", "~/out.hrir"}

\* os.path.expanduser: a leading user-home shorthand is replaced
expanduser(p) == IF p = "~/out.hrir" THEN "/home/user/out.hrir" ELSE p

Paths == {expanduser(p) : p \in ArgPaths}

RequiredIndex == 1276      \* the largest of the hand-picked indices
MinMeasurements == RequiredIndex + 1
Gain == 10                 \* ir *= 10

NoData == [M |-> 0, R |-> 0, N |-> 0, pattern |-> 0, rate |-> 0, missing |-> "none"]

\* a dataset: M measurements, R ear sides, N samples, one of the value
\* patterns, and at most one of the three variables missing
GoodDatasets ==
    { [M |-> m, R |-> 2, N |-> n, pattern |-> p, rate |-> 48000,
       missing |-> "none"] :
         m \in MinMeasurements..(MinMeasurements + MaxExtra),
         n \in 0..MaxSamples, p \in 1..MaxPattern }

Good1 == [M |-> MinMeasurements, R |-> 2, N |-> 1, pattern |-> 1,
          rate |-> 48000, missing |-> "none"]

BadDatasets ==
    { [Good1 EXCEPT !.missing = v] :
         v \in {"SourcePosition", "Data.IR", "Data.SamplingRate"} }
    \cup { [Good1 EXCEPT !.M = m] : m \in {0, 289, 796, RequiredIndex} }
    \cup { [Good1 EXCEPT !.R = 1] }

Datasets == GoodDatasets \cup BadDatasets

AbsentFile == [kind |-> "absent", lines |-> <<>>, ds |-> NoData]
SofaFile(d) == [kind |-> "sofa", lines |-> <<>>, ds |-> d]
TextFile(l) == [kind |-> "text", lines |-> l, ds |-> NoData]
OldText == TextFile(<< <<Num(44100, 1)>>, <<Num(7, 1), Num(8, 1)>> >>)

\* the stored values of the three variables
SourcePosition(d) ==
    [k \in 0..(d.M - 1) |-> [j \in 0..2 |->
        IF j = 0 THEN (5 * k) % 360
        ELSE IF j = 1 THEN 10 * ((k \div 72) % 18) - 90
        ELSE 1]]

RawSample(d, k, s, t) == MkRat(d.pattern * (k + 1) - 500 * s, t + 1)

DataIR(d) ==
    [k \in 0..(d.M - 1) |-> [s \in 0..(d.R - 1) |-> [t \in 0..(d.N - 1) |->
        RawSample(d, k, s, t)]]]

\* faulty variant: a missing variable reads as present
HasVariableAlways(d, name) == TRUE

\* name in rootgrp.variables
HasVariable(d, name) == d.missing # name

\* str() of a number: the text of a value, one text per value
StrRat(x) == Num(x[1], x[2])
StrNum(x) == x
StrInt(n) == Num(n, 1)

\* ', '.join(str(ci) for ci in xs) over a 0-based vector of length n:
\* the row of its tokens; an empty vector gives the empty (blank) row
JoinRat(xs, n) == [j \in 1..n |-> StrRat(xs[j - 1])]
JoinNum(xs, n) == [j \in 1..n |-> StrNum(xs[j - 1])]

\* -------------------------------------------------------------- matrices
\* faulty variant: W is weighted 1 instead of 1/sqrt(2)
EncodeMatrixW1(grid) ==
    [i \in 0..3 |-> [j \in 0..3 |-> IF j = 0 THEN One ELSE grid[i][j - 1]]]

EncodeMatrix(grid) ==
    [i \in 0..3 |-> [j \in 0..3 |->
        IF j = 0 THEN DivN(One, SqrtN(Num(2, 1))) ELSE grid[i][j - 1]]]

Transpose(m) == [i \in 0..3 |-> [j \in 0..3 |-> m[j][i]]]

\* faulty variant: row i is taken instead of column i
ColumnAsRow(m, i) == m[i]

\* m[:, i]
Column(m, i) == [j \in 0..3 |-> m[j][i]]

\* m.shape[1]
Shape1(m) == Cardinality(DOMAIN m[0])

\* faulty variant: only the left ear is scaled
ScaleIRLeftOnly(a, g) ==
    [k \in DOMAIN a |-> [s \in DOMAIN a[k] |-> [t \in DOMAIN a[k][s] |->
        IF s = 0 THEN RatScale(a[k][s][t], g) ELSE a[k][s][t]]]]

\* ir *= 10
ScaleIR(a, g) ==
    [k \in DOMAIN a |-> [s \in DOMAIN a[k] |-> [t \in DOMAIN a[k][s] |->
        RatScale(a[k][s][t], g)]]]

\* faulty variant: the sum is not halved
AverageSum(a, b) ==
    [s \in DOMAIN a |-> [t \in DOMAIN a[s] |-> RatAdd(a[s][t], b[s][t])]]

\* (a + b) / 2 on two [ear][sample] arrays
Average(a, b) ==
    [s \in DOMAIN a |-> [t \in DOMAIN a[s] |-> RatDivInt(RatAdd(a[s][t], b[s][t]), 2)]]

\* the hand-picked measurement indices, in the order the code reads them
ManualReads == <<289, 1276, 777, 21, 796>>

\* hrirs after lines 55-59, or as far as they get before an IndexError
SelectedHrirs(a) ==
    LET ok(k) == k \in DOMAIN a
    IN  IF ~ok(289) THEN <<>>
        ELSE IF ~ok(1276) THEN <<a[289]>>
        ELSE IF ~ok(777) THEN <<a[289], a[1276]>>
        ELSE IF ~(ok(21) /\ ok(796)) THEN <<a[289], a[1276], a[777]>>
        ELSE <<a[289], a[1276], a[777], Average(a[21], a[796])>>

SelectionFails(a) == \E j \in 1..5 : ManualReads[j] \notin DOMAIN a

\* faulty variant: mode 'a', an existing text file keeps its rows
OpenForAppend(f) == IF f.kind = "text" THEN f ELSE TextFile(<<>>)

\* open(outfile, 'w'): the file is created or truncated
OpenForWrite(f) == TextFile(<<>>)

\* faulty variant: only too few arguments are rejected
TooFewArgs(a) == Len(a) + 1 < 3

\* len(sys.argv) != 3
WrongArgCount(a) == Len(a) + 1 # 3

Usage == [kind |-> "usage", vals |-> <<>>]

ArgLists == UNION { [1..n -> ArgPaths] : n \in 0..MaxArgs }

\* ------------------------------------------------------------------ state
VARIABLES
    pc,          \* position of the running process
    run,         \* number of the current invocation
    argv,        \* sys.argv[1:], the same in every invocation
    writable,    \* whether the output path can be opened for writing
    fsys,        \* the file system: path -> file
    stdout,      \* rows printed to standard output by the current process
    exitCode,    \* <<>> while running, <<status>> once exited
    error,       \* the uncaught exception, "" if none
    iolog,       \* the open() / Dataset() calls of the current process
    tetrahedron, infile, outfile, pos, ir, fs, C, CI, hrirs, i,
    fsysStart,   \* history: the file system when the current process started
    prevStart,   \* history: the file system when the previous process started
    prevEnd,     \* history: the file system when the previous process exited
    prevExit,    \* history: the exit status of the previous process
    nmsPos, nmsTargets, nmsIdx, nmsPc    \* the nearest-match selector's run

memory == <<tetrahedron, infile, outfile, pos, ir, fs, C, CI, hrirs, i>>
history == <<fsysStart, prevStart, prevEnd, prevExit>>
nms == <<nmsPos, nmsTargets, nmsIdx, nmsPc>>
vars == <<pc, run, argv, writable, fsys, stdout, exitCode, error, iolog,
          memory, history, nms>>

\* a process that has just executed lines 7-16
FreshProcess ==
    /\ pc = "calc_angles"
    /\ stdout = <<>> /\ exitCode = <<>> /\ error = "" /\ iolog = <<>>
    /\ tetrahedron = Tetrahedron
    /\ infile = "" /\ outfile = ""
    /\ pos = <<>> /\ ir = <<>> /\ fs = 0 /\ C = <<>> /\ CI = <<>>
    /\ hrirs = <<>> /\ i = 0

NmsIdle == nmsPos = <<>> /\ nmsTargets = <<>> /\ nmsIdx = <<>> /\ nmsPc = "idle"

Init ==
    /\ FreshProcess
    /\ run = 1
    /\ argv \in ArgLists
    /\ writable \in BOOLEAN
    /\ \E d \in Datasets \cup {NoData}, o \in {AbsentFile, OldText} :
          fsys = [p \in Paths |->
                    IF p = "in.sofa"
                    THEN (IF d = NoData THEN AbsentFile ELSE SofaFile(d))
                    ELSE o]
    /\ fsysStart = fsys /\ prevStart = fsys /\ prevEnd = fsys /\ prevExit = <<>>
    /\ NmsIdle

\* an uncaught exception ends the process with status 1
Raise(e) == pc' = "exited" /\ exitCode' = <<1>> /\ error' = e

\* line 25
CalcAngles ==
    /\ pc = "calc_angles"
    /\ stdout' = stdout \o calc_angles(tetrahedron).printed
    /\ tetrahedron' = calc_angles(tetrahedron).cartesian
    /\ pc' = "main"
    /\ UNCHANGED <<run, argv, writable, fsys, exitCode, error, iolog, infile,
                   outfile, pos, ir, fs, C, CI, hrirs, i, history, nms>>

\* lines 29-35
CheckArgs ==
    /\ pc = "main"
    /\ IF WrongArgCount(argv)
       THEN /\ stdout' = Append(stdout, Usage)
            /\ pc' = "exited" /\ exitCode' = <<255>>     \* sys.exit(-1)
            /\ UNCHANGED <<infile, outfile>>
       ELSE /\ infile' = expanduser(argv[1])
            /\ outfile' = expanduser(argv[2])
            /\ pc' = "open_in"
            /\ UNCHANGED <<stdout, exitCode>>
    /\ UNCHANGED <<run, argv, writable, fsys, error, iolog, tetrahedron,
                   pos, ir, fs, C, CI, hrirs, i, history, nms>>

\* line 37
OpenDataset ==
    /\ pc = "open_in"
    /\ iolog' = Append(iolog, <<infile, "r">>)
    /\ IF fsys[infile].kind = "sofa"
       THEN pc' = "read" /\ UNCHANGED <<exitCode, error>>
       ELSE Raise("OSError")
    /\ UNCHANGED <<run, argv, writable, fsys, stdout, memory, history, nms>>

\* lines 39-41
ReadVariables ==
    /\ pc = "read"
    /\ LET d == fsys[infile].ds
           okPos == HasVariable(d, "SourcePosition")
           okIR  == okPos /\ HasVariable(d, "Data.IR")
           okFs  == okIR /\ HasVariable(d, "Data.SamplingRate")
       IN  /\ pos' = IF okPos THEN SourcePosition(d) ELSE pos
           /\ ir'  = IF okIR THEN DataIR(d) ELSE ir
           /\ fs'  = IF okFs THEN d.rate ELSE fs
           /\ IF okFs
              THEN pc' = "matrices" /\ UNCHANGED <<exitCode, error>>
              ELSE Raise("KeyError")
    /\ UNCHANGED <<run, argv, writable, fsys, stdout, iolog, tetrahedron,
                   infile, outfile, C, CI, hrirs, i, history, nms>>

\* lines 43-46
BuildMatrices ==
    /\ pc = "matrices"
    /\ C' = EncodeMatrix(tetrahedron)
    /\ CI' = Transpose(C')
    /\ pc' = "scale"
    /\ UNCHANGED <<run, argv, writable, fsys, stdout, exitCode, error, iolog,
                   tetrahedron, infile, outfile, pos, ir, fs, hrirs, i,
                   history, nms>>

\* line 53
ScaleGain ==
    /\ pc = "scale"
    /\ ir' = ScaleIR(ir, Gain)
    /\ pc' = "select"
    /\ UNCHANGED <<run, argv, writable, fsys, stdout, exitCode, error, iolog,
                   tetrahedron, infile, outfile, pos, fs, C, CI, hrirs, i,
                   history, nms>>

\* lines 55-59
SelectHrirs ==
    /\ pc = "select"
    /\ hrirs' = SelectedHrirs(ir)
    /\ IF SelectionFails(ir)
       THEN Raise("IndexError")
       ELSE pc' = "open_out" /\ UNCHANGED <<exitCode, error>>
    /\ UNCHANGED <<run, argv, writable, fsys, stdout, iolog, tetrahedron,
                   infile, outfile, pos, ir, fs, C, CI, i, history, nms>>

\* faulty variant: the blank row that ends a group is not printed
GroupRowsNoBlank(ci, h, k) ==
    LET row == JoinNum(Column(ci, k), Cardinality(DOMAIN ci))
        ear(s) == JoinRat(h[k + 1][s], Cardinality(DOMAIN h[k + 1][s]))
    IN  IF 0 \notin DOMAIN h[k + 1] THEN <<row>>
        ELSE IF 1 \notin DOMAIN h[k + 1] THEN <<row, ear(0)>>
        ELSE <<row, ear(0), ear(1)>>

\* the rows one pass of the loop body (lines 66-69) prints for feed i:
\* all four, or those printed before hrirs[i][0] or hrirs[i][1] raises
GroupRows(ci, h, k) ==
    LET row == JoinNum(Column(ci, k), Cardinality(DOMAIN ci))
        ear(s) == JoinRat(h[k + 1][s], Cardinality(DOMAIN h[k + 1][s]))
    IN  IF 0 \notin DOMAIN h[k + 1] THEN <<row>>
        ELSE IF 1 \notin DOMAIN h[k + 1] THEN <<row, ear(0)>>
        ELSE <<row, ear(0), ear(1), <<>> >>

GroupFails(h, k) == ~({0, 1} \subseteq DOMAIN h[k + 1])

\* print(..., file=f)
WriteRows(f, rows) == [f EXCEPT !.lines = f.lines \o rows]

\* line 61
OpenOutput ==
    /\ pc = "open_out"
    /\ iolog' = Append(iolog, <<outfile, "w">>)
    /\ IF writable
       THEN /\ fsys' = [fsys EXCEPT ![outfile] = OpenForWrite(fsys[outfile])]
            /\ pc' = "header"
            /\ UNCHANGED <<exitCode, error>>
       ELSE Raise("OSError") /\ UNCHANGED fsys
    /\ UNCHANGED <<run, argv, writable, stdout, memory, history, nms>>

\* lines 62-63
WriteHeader ==
    /\ pc = "header"
    /\ fsys' = [fsys EXCEPT ![outfile] = WriteRows(@, << <<StrInt(fs)>>, <<>> >>)]
    /\ i' = 0
    /\ pc' = "loop"
    /\ UNCHANGED <<run, argv, writable, stdout, exitCode, error, iolog,
                   tetrahedron, infile, outfile, pos, ir, fs, C, CI, hrirs,
                   history, nms>>

\* lines 65-69, one pass
WriteGroup ==
    /\ pc = "loop"
    /\ i < Shape1(CI)
    /\ fsys' = [fsys EXCEPT ![outfile] = WriteRows(@, GroupRows(CI, hrirs, i))]
    /\ IF GroupFails(hrirs, i)
       THEN Raise("IndexError") /\ i' = i
       ELSE i' = i + 1 /\ UNCHANGED <<pc, exitCode, error>>
    /\ UNCHANGED <<run, argv, writable, stdout, iolog, tetrahedron, infile,
                   outfile, pos, ir, fs, C, CI, hrirs, history, nms>>

\* the loop is exhausted, the file is closed and the script ends
Finish ==
    /\ pc = "loop"
    /\ i >= Shape1(CI)
    /\ pc' = "exited" /\ exitCode' = <<0>>
    /\ UNCHANGED <<run, argv, writable, fsys, stdout, error, iolog, memory,
                   history, nms>>

\* the program is started again with the same arguments
Rerun ==
    /\ pc = "exited"
    /\ run < MaxRuns
    /\ run' = run + 1
    /\ pc' = "calc_angles"
    /\ stdout' = <<>> /\ exitCode' = <<>> /\ error' = "" /\ iolog' = <<>>
    /\ tetrahedron' = Tetrahedron
    /\ infile' = "" /\ outfile' = ""
    /\ pos' = <<>> /\ ir' = <<>> /\ fs' = 0 /\ C' = <<>> /\ CI' = <<>>
    /\ hrirs' = <<>> /\ i' = 0
    /\ prevStart' = fsysStart /\ prevEnd' = fsys /\ prevExit' = exitCode
    /\ fsysStart' = fsys
    /\ UNCHANGED <<argv, writable, fsys, nms>>

Next ==
    \/ CalcAngles \/ CheckArgs \/ OpenDataset \/ ReadVariables
    \/ BuildMatrices \/ ScaleGain \/ SelectHrirs
    \/ OpenOutput \/ WriteHeader \/ WriteGroup \/ Finish \/ Rerun

Spec == Init /\ [][Next]_vars

\* ------------------------------------------------ nearest-match selector
\* faulty variant: the last index of the minimum
ArgMinLast(d) ==
    CHOOSE k \in DOMAIN d :
        /\ \A j \in DOMAIN d : d[k] <= d[j]
        /\ \A j \in DOMAIN d : j > k => d[j] > d[k]

\* np.argmin over a 0-based vector: the first index of the minimum
ArgMin(d) ==
    CHOOSE k \in DOMAIN d :
        /\ \A j \in DOMAIN d : d[k] <= d[j]
        /\ \A j \in DOMAIN d : j < k => d[j] > d[k]

\* np.sum((pos[:, :2] - vs)**2, axis=1)
SquaredDistances(p, vs) ==
    [k \in DOMAIN p |-> (p[k][0] - vs[1]) * (p[k][0] - vs[1])
                        + (p[k][1] - vs[2]) * (p[k][1] - vs[2])]

NearestMatchSelector(p, targets) ==
    [j \in 1..Len(targets) |-> ArgMin(SquaredDistances(p, targets[j]))]

PositionSets ==
    UNION { [0..(n - 1) -> { <<a, e>> : a \in Coords, e \in Coords }] : n \in 1..MaxPos }

TargetLists == UNION { [1..n -> (Coords \cup {5}) \X Coords] : n \in 1..2 }

InitNMS ==
    /\ FreshProcess
    /\ run = 1 /\ argv = <<>> /\ writable = FALSE
    /\ fsys = [p \in Paths |-> AbsentFile]
    /\ fsysStart = fsys /\ prevStart = fsys /\ prevEnd = fsys /\ prevExit = <<>>
    /\ \E ps \in PositionSets :
          \* the third position field (the radius) differs from entry to entry
          nmsPos = [k \in DOMAIN ps |-> [j \in 0..2 |->
                       IF j < 2 THEN ps[k][j + 1] ELSE k + 1]]
    /\ nmsTargets \in TargetLists
    /\ nmsIdx = <<>>
    /\ nmsPc = "ready"

Select ==
    /\ nmsPc = "ready"
    /\ nmsIdx' = NearestMatchSelector(nmsPos, nmsTargets)
    /\ nmsPc' = "selected"
    /\ UNCHANGED <<pc, run, argv, writable, fsys, stdout, exitCode, error,
                   iolog, memory, history, nmsPos, nmsTargets>>

NextNMS == Select

SpecNMS == InitNMS /\ [][NextNMS]_vars

\* ====================================================== properties
\* the paths of a run with two arguments, the dataset it reads, its output
InPath  == expanduser(argv[1])
OutPath == expanduser(argv[2])
Input   == fsysStart[InPath].ds
OutRows == fsys[OutPath].lines
Succeeded == pc = "exited" /\ exitCode = <<0>>

Dot(u, v) == AddN(AddN(MulN(u[0], v[0]), MulN(u[1], v[1])), MulN(u[2], v[2]))

MatMul(a, b) ==
    [r \in 0..3 |-> [c \in 0..3 |->
        AddN(AddN(MulN(a[r][0], b[0][c]), MulN(a[r][1], b[1][c])),
             AddN(MulN(a[r][2], b[2][c]), MulN(a[r][3], b[3][c])))]]

\* the dataset's own (unscaled) response for feed g = 0..3
RawAverage(d, s, t) ==
    RatDivInt(RatAdd(RawSample(d, 21, s, t), RawSample(d, 796, s, t)), 2)

RawFeed(d, g, s, t) ==
    IF g = 0 THEN RawSample(d, 289, s, t)
    ELSE IF g = 1 THEN RawSample(d, 1276, s, t)
    ELSE IF g = 2 THEN RawSample(d, 777, s, t)
    ELSE RawAverage(d, s, t)

\* C1: a successful run on a dataset with at least 1277 measurements and at
\* least one sample writes exactly: the sampling rate, a blank row, and 4
\* groups of 3 non-blank rows (4 values, N left samples, N right samples)
\* each followed by one blank row, and nothing more.
C1_Layout ==
    (Succeeded /\ Input.M >= MinMeasurements /\ Input.N >= 1) =>
        /\ Len(OutRows) = 2 + 4 * 4
        /\ OutRows[1] = <<StrInt(Input.rate)>>
        /\ OutRows[2] = <<>>
        /\ \A g \in 0..3 :
              /\ Len(OutRows[3 + 4 * g]) = 4
              /\ Len(OutRows[4 + 4 * g]) = Input.N
              /\ Len(OutRows[5 + 4 * g]) = Input.N
              /\ OutRows[6 + 4 * g] = <<>>

C1_Witness ==
    /\ Succeeded /\ Input.N = 2 /\ Input.M > MinMeasurements
    /\ Len(OutRows) = 18 /\ fsysStart[OutPath] = OldText

\* C2 as stated: the sample rows of the 4th group equal the elementwise
\* average of the dataset's responses at indices 21 and 796.
C2_PlainAverage ==
    Succeeded =>
        \A s \in 0..1 : \A t \in 0..(Input.N - 1) :
            OutRows[16 + s][t + 1] = StrRat(RawAverage(Input, s, t))

\* C2 amended: the sample rows of the 4th group equal the elementwise
\* average of the gain-scaled responses at indices 21 and 796, which is 10
\* times the elementwise average of the dataset's responses at 21 and 796.
C2_ScaledAverage ==
    Succeeded =>
        \A s \in 0..1 : \A t \in 0..(Input.N - 1) :
            /\ OutRows[16 + s][t + 1] =
                  StrRat(RatDivInt(RatAdd(RatScale(RawSample(Input, 21, s, t), Gain),
                                          RatScale(RawSample(Input, 796, s, t), Gain)), 2))
            /\ OutRows[16 + s][t + 1] = StrRat(RatScale(RawAverage(Input, s, t), Gain))

C2_Witness ==
    /\ Succeeded /\ Input.N >= 1
    /\ OutRows[16][1] # StrRat(RawSample(Input, 21, 0, 0))
    /\ OutRows[16][1] # StrRat(RawSample(Input, 796, 0, 0))

\* C3: the first row of group i is row i of the encode matrix, the values
\* [1/sqrt(2), x_i, y_i, z_i] of grid direction i, and the two sample rows
\* of the same group hold the response chosen for that direction (289,
\* 1276, 777, average of 21 and 796): printing column i of CI = transpose(C)
\* neither reorders nor mixes feeds.
C3_FeedPairing ==
    Succeeded =>
        \A g \in 0..3 :
            /\ OutRows[3 + 4 * g] = JoinNum(C[g], 4)
            /\ OutRows[3 + 4 * g] =
                  <<DivN(One, SqrtN(Num(2, 1))), Tetrahedron[g][0],
                    Tetrahedron[g][1], Tetrahedron[g][2]>>
            /\ \A s \in 0..1 :
                  OutRows[4 + 4 * g + s] =
                     [t \in 1..Input.N |->
                        StrRat(RatScale(RawFeed(Input, g, s, t - 1), Gain))]

C3_Witness ==
    /\ Succeeded /\ Input.N >= 1
    /\ OutRows[3] # OutRows[7] /\ OutRows[7] # OutRows[11] /\ OutRows[11] # OutRows[15]
    /\ OutRows[4] # OutRows[8]

\* C4: with an argument count other than two the program prints the
\* one-row usage message, exits with a nonzero status, and opens neither the
\* input container nor the output file: the file system stays as it was.
C4_UsageOnly ==
    Len(argv) # 2 =>
        /\ iolog = <<>>
        /\ fsys = fsysStart
        /\ pc \in {"calc_angles", "main", "exited"}
        /\ pc = "exited" =>
              /\ exitCode # <<>> /\ exitCode # <<0>>
              /\ stdout[Len(stdout)] = Usage
              /\ Cardinality({k \in DOMAIN stdout : stdout[k] = Usage}) = 1

C4_Witness ==
    /\ pc = "exited" /\ Len(argv) = 3 /\ exitCode = <<255>>
    /\ fsys["in.sofa"].kind = "sofa" /\ stdout[Len(stdout)] = Usage

\* C5: a second run with the same arguments on an unchanged input file
\* leaves the output path with the content the first run left there, and
\* ends with the same status.
C5_Deterministic ==
    (run >= 2 /\ pc = "exited" /\ Len(argv) = 2
       /\ fsysStart[InPath] = prevStart[InPath]) =>
        /\ fsys[OutPath] = prevEnd[OutPath]
        /\ exitCode = prevExit

C5_Witness ==
    /\ run = 2 /\ Succeeded /\ InPath # OutPath /\ Input.N >= 1
    /\ prevStart[OutPath] = OldText
    /\ fsysStart[InPath] = prevStart[InPath]
    /\ Len(OutRows) = 18

\* C6 as stated: transpose(C) * C is a scaled identity: off-diagonal
\* entries 0 and the four diagonal entries equal.
C6_ScaledIdentity ==
    pc \in {"scale", "select", "open_out", "header", "loop"} =>
        LET P == MatMul(CI, C)
        IN  /\ \A r \in 0..3 : \A c \in 0..3 : r # c => P[r][c] = Zero
            /\ \A r \in 0..3 : P[r][r] = P[0][0]

\* C6 amended: transpose(C) * C is diagonal, with diagonal entry 2 for the
\* W channel and 4/3 for each of X, Y and Z.
C6_Diagonal ==
    pc \in {"scale", "select", "open_out", "header", "loop"} =>
        LET P == MatMul(CI, C)
        IN  /\ \A r \in 0..3 : \A c \in 0..3 : r # c => P[r][c] = Zero
            /\ P[0][0] = Num(2, 1)
            /\ \A r \in 1..3 : P[r][r] = Num(4, 3)

C6_Witness == pc = "scale" /\ CI = Transpose(C) /\ C[3][3] = One

\* C8: every sample written by a successful run is the dataset's sample
\* (feeds 1 to 3: indices 289, 1276, 777) or the dataset's two-sample
\* average (feed 4) times the one factor 10, for both ears and every
\* sample position.
C8_UniformGain ==
    Succeeded =>
        \A g \in 0..3 : \A s \in 0..1 : \A t \in 0..(Input.N - 1) :
            OutRows[4 + 4 * g + s][t + 1] =
                StrRat(RatScale(RawFeed(Input, g, s, t), Gain))

C8_Witness ==
    /\ Succeeded /\ Input.N >= 2 /\ Input.pattern = 2
    /\ \A g \in 0..3 : OutRows[5 + 4 * g][2] # Zero

\* C9: a run on a dataset with fewer than 1277 measurements or with a
\* required variable missing never succeeds, ends (if it ends) with an
\* uncaught KeyError or IndexError, and never opens the output file: the
\* file system stays as it was before the run.
C9_FailsBeforeOutput ==
    (Len(argv) = 2 /\ fsysStart[InPath].kind = "sofa"
       /\ (Input.M < MinMeasurements \/ Input.missing # "none")) =>
        /\ ~Succeeded
        /\ fsys = fsysStart
        /\ \A k \in DOMAIN iolog : iolog[k][2] # "w"
        /\ pc \notin {"open_out", "header", "loop"}
        /\ pc = "exited" => exitCode = <<1>> /\ error \in {"KeyError", "IndexError"}

C9_Witness ==
    /\ pc = "exited" /\ Len(argv) = 2 /\ error = "IndexError"
    /\ Input.M = RequiredIndex /\ Len(hrirs) = 1
    /\ writable /\ fsys[OutPath] = OldText

\* C10: the grid rows are unit vectors with pairwise inner product -1/3,
\* and the grid still has its initial values, in their order, after
\* calc_angles and when the encode matrix is built.
C10_RegularTetrahedron ==
    /\ \A r \in 0..3 : Dot(tetrahedron[r], tetrahedron[r]) = One
    /\ \A r \in 0..3 : \A c \in 0..3 :
          r # c => Dot(tetrahedron[r], tetrahedron[c]) = Num(-1, 3)
    /\ tetrahedron = Tetrahedron
    /\ pc \in {"scale", "select", "open_out", "header", "loop"} =>
          \A r \in 0..3 : \A c \in 0..2 : C[r][c + 1] = Tetrahedron[r][c]

C10_Witness == pc = "matrices" /\ Len(stdout) = 2 /\ tetrahedron[0][0] = NegN(SqrtN(Num(2, 3)))

\* ---- nearest-match selector
SameDirection(k, j) ==
    nmsPos[k][0] = nmsTargets[j][1] /\ nmsPos[k][1] = nmsTargets[j][2]

\* C7 as stated: a target equal to measured position k in the first two
\* fields is matched to that index k.
C7_ExactIndex ==
    nmsPc = "selected" =>
        \A j \in 1..Len(nmsTargets) : \A k \in DOMAIN nmsPos :
            SameDirection(k, j) => nmsIdx[j] = k

\* C7 amended: the index list is aligned with the target list, each index
\* is the first one of minimum squared distance over the first two fields,
\* and a target equal to measured position k in those fields is matched to
\* the first measured position equal to it (k itself when no earlier
\* position has the same two fields).
C7_FirstExactIndex ==
    nmsPc = "selected" =>
        /\ Len(nmsIdx) = Len(nmsTargets)
        /\ \A j \in 1..Len(nmsTargets) :
              LET d == SquaredDistances(nmsPos, nmsTargets[j])
              IN  /\ nmsIdx[j] \in DOMAIN nmsPos
                  /\ \A k \in DOMAIN nmsPos :
                        /\ d[nmsIdx[j]] <= d[k]
                        /\ k < nmsIdx[j] => d[k] > d[nmsIdx[j]]
                        /\ SameDirection(k, j) =>
                              /\ SameDirection(nmsIdx[j], j)
                              /\ nmsIdx[j] <= k
                              /\ (\A m \in 0..(k - 1) : ~SameDirection(m, j))
                                    => nmsIdx[j] = k

C7_Witness ==
    /\ nmsPc = "selected" /\ Len(nmsTargets) = 2
    /\ \E k \in DOMAIN nmsPos : k > 0 /\ SameDirection(k, 1) /\ nmsIdx[1] = k
    /\ \A k \in DOMAIN nmsPos : ~SameDirection(k, 2)
====
